---------------------------- MODULE Spec2Model ----------------------------
(***************************************************************************)
(* Model of sign-vc.py: the script that builds an LDP verifiable           *)
(* credential, hashes the proof options and the credential separately,     *)
(* signs the concatenated digests and prints the signed credential.        *)
(*                                                                         *)
(* Representation.                                                         *)
(*   - A Python str is a Text: a sequence of pieces, each piece either a   *)
(*     run of characters json.dumps emits unchanged or one character it    *)
(*     escapes (the quote, the backslash, the newline).                    *)
(*   - A Python dict is a sequence of entries [k, v] in insertion order,   *)
(*     stored on a heap and named by its address, so that aliasing and     *)
(*     dict.copy() are what they are in Python.                            *)
(*   - bytes objects (serialized JSON, digests, signatures) are strings;   *)
(*     sha256, the ECDSA signature and base64 are free constructors (terms *)
(*     written out as text): injective, and nothing else is assumed.       *)
(***************************************************************************)
EXTENDS Integers, Sequences, FiniteSets, TLC

\* ------------------------------------------------------------------ bounds
\* The clock shows second 0..MaxClock of the hour.
MaxClock == 2
\* uuid.uuid4() draws one of MaxUuid identifiers.
MaxUuid == 2
\* The ECDSA nonce drawn by sk.sign is one of MaxNonce values.
MaxNonce == 2

\* ----------------------------------------------------------- configuration
issuer_private_key_hex ==
    <<"0x", "2a871d0798f97d79848a013d4936a73bf4cc922c825d33c1cf7073dff6d409c6">>
issuer_did == <<"did:example:issuer123">>
verification_method == issuer_did \o <<"#keys-1">>

\* What input() can return for the three prompts: a line without its newline,
\* possibly empty, possibly holding characters JSON escapes.
HolderDids == { <<>>, <<"did:example:holder1">>, <<"did:ex:", "\"", "h2">> }
HolderNames == { <<"Budi">>, <<"A", "\\", "B">> }
HolderNims == { <<"12345">>, <<>> }

\* ------------------------------------------------------------------ values
Str(t) == [tag |-> "str", s |-> t, l |-> <<>>, r |-> 0]
List(ts) == [tag |-> "list", s |-> <<>>, l |-> ts, r |-> 0]
Ref(a) == [tag |-> "dict", s |-> <<>>, l |-> <<>>, r |-> a]
Entry(key, val) == [k |-> key, v |-> val]

\* The address of no object, and the value of a local not yet assigned.
None == 0
Unbound == "<unbound>"

RECURSIVE Plain(_)
Plain(t) == IF Len(t) = 0 THEN "" ELSE Head(t) \o Plain(Tail(t))

HasKey(d, key) == \E i \in 1..Len(d) : d[i].k = key
Get(d, key) == d[CHOOSE i \in 1..Len(d) : d[i].k = key].v
CountKey(d, key) == Cardinality({i \in 1..Len(d) : d[i].k = key})

\* d[key] = val: an existing key keeps its place, a new one goes last.
SetItem(d, key, val) ==
    IF HasKey(d, key)
    THEN [i \in 1..Len(d) |-> IF d[i].k = key THEN Entry(key, val) ELSE d[i]]
    ELSE Append(d, Entry(key, val))

RECURSIVE DictWithout(_, _)
DictWithout(d, key) ==
    IF Len(d) = 0 THEN <<>>
    ELSE IF Head(d).k = key THEN DictWithout(Tail(d), key)
    ELSE <<Head(d)>> \o DictWithout(Tail(d), key)

\* Mutant: no copy is made, the "copy" is the dict itself.
DictCopy_alias(h, a) == [ref |-> a, heap |-> h]

\* dict.copy(): a new dict with the same entries; nested objects are shared.
DictCopy(h, a) == [ref |-> Len(h) + 1, heap |-> Append(h, h[a])]

\* -------------------------------------------------------------- json.dumps
\* Every key the script uses, in the order Python compares str (by code point).
KeyOrder ==
    <<"@context", "created", "credentialSubject", "id", "issuanceDate", "issuer",
      "nama", "nim", "proof", "proofPurpose", "proofValue", "type",
      "verificationMethod">>
KeyRank(key) == CHOOSE i \in 1..Len(KeyOrder) : KeyOrder[i] = key
KeyLess(a, b) == KeyRank(a) < KeyRank(b)

RECURSIVE InsertByKey(_, _)
InsertByKey(e, s) ==
    IF Len(s) = 0 THEN <<e>>
    ELSE IF KeyLess(e.k, Head(s).k) THEN <<e>> \o s
    ELSE <<Head(s)>> \o InsertByKey(e, Tail(s))

RECURSIVE SortedByKey(_)
SortedByKey(d) ==
    IF Len(d) = 0 THEN <<>> ELSE InsertByKey(Head(d), SortedByKey(Tail(d)))

\* sort_keys=True sorts the items of every dict; otherwise insertion order.
ItemsOf(d, o) == IF o.sort_keys THEN SortedByKey(d) ELSE d

Escape(p) ==
    CASE p = "\"" -> "\\\""
      [] p = "\\" -> "\\\\"
      [] p = "\n" -> "\\n"
      [] OTHER -> p

RECURSIVE EscapeAll(_)
EscapeAll(t) == IF Len(t) = 0 THEN "" ELSE Escape(Head(t)) \o EscapeAll(Tail(t))

EncodeString(t) == "\"" \o EscapeAll(t) \o "\""

RECURSIVE Spaces(_)
Spaces(n) == IF n <= 0 THEN "" ELSE " " \o Spaces(n - 1)

\* indent=None is o.indent = -1: no line breaks at all.
Newline(o, level) == IF o.indent < 0 THEN "" ELSE "\n" \o Spaces(o.indent * level)

RECURSIVE ListItems(_, _, _)
ListItems(ts, o, level) ==
    IF Len(ts) = 1 THEN EncodeString(Head(ts))
    ELSE EncodeString(Head(ts)) \o o.item_separator \o Newline(o, level)
         \o ListItems(Tail(ts), o, level)

RECURSIVE DumpsValue(_, _, _, _)
RECURSIVE DumpsDict(_, _, _, _)
RECURSIVE DictItems(_, _, _, _)

\* Mutant: only the outermost dict is sorted, nested dicts keep insertion order.
DumpsValue_shallow(h, v, o, level) ==
    CASE v.tag = "str" -> EncodeString(v.s)
      [] v.tag = "list" ->
            IF Len(v.l) = 0 THEN "[]"
            ELSE "[" \o Newline(o, level + 1) \o ListItems(v.l, o, level + 1)
                 \o Newline(o, level) \o "]"
      [] v.tag = "dict" -> DumpsDict(h, h[v.r], [o EXCEPT !.sort_keys = FALSE], level)

DumpsValue(h, v, o, level) ==
    CASE v.tag = "str" -> EncodeString(v.s)
      [] v.tag = "list" ->
            IF Len(v.l) = 0 THEN "[]"
            ELSE "[" \o Newline(o, level + 1) \o ListItems(v.l, o, level + 1)
                 \o Newline(o, level) \o "]"
      [] v.tag = "dict" -> DumpsDict(h, h[v.r], o, level)

DictItems(h, items, o, level) ==
    LET e == Head(items)
        one == EncodeString(<<e.k>>) \o o.key_separator \o DumpsValue(h, e.v, o, level)
    IN  IF Len(items) = 1 THEN one
        ELSE one \o o.item_separator \o Newline(o, level)
             \o DictItems(h, Tail(items), o, level)

DumpsDict(h, d, o, level) ==
    IF Len(d) = 0 THEN "{}"
    ELSE "{" \o Newline(o, level + 1) \o DictItems(h, ItemsOf(d, o), o, level + 1)
         \o Newline(o, level) \o "}"

\* json.dumps(obj, sort_keys=True, separators=(',', ':'))
CompactSorted ==
    [sort_keys |-> TRUE, indent |-> -1, item_separator |-> ",", key_separator |-> ":"]
\* json.dumps(obj, indent=2)
Indented ==
    [sort_keys |-> FALSE, indent |-> 2, item_separator |-> ",", key_separator |-> ": "]

\* Mutant: sort_keys is forgotten, the keys come out in insertion order.
Canonical_unsorted(h, d) ==
    DumpsDict(h, d, [CompactSorted EXCEPT !.sort_keys = FALSE], 0)

\* The canonical form the script hashes: compact JSON with sorted keys. The
\* text is ASCII (ensure_ascii), so .encode('utf-8') changes nothing.
Canonical(h, d) == DumpsDict(h, d, CompactSorted, 0)

\* ------------------------------------------------------------ cryptography
sha256(b) == "sha256(" \o b \o ")"
sha1(b) == "sha1(" \o b \o ")"
b64encode(b) == "base64(" \o b \o ")"

\* issuer_private_key_hex[2:] drops the two characters "0x".
KeyHexDigits == Plain(Tail(issuer_private_key_hex))
\* SigningKey.from_string accepts exactly 32 bytes for SECP256k1.
KeyLengthOk == Len(KeyHexDigits) = 64
FromHex(digits) == "fromhex(" \o digits \o ")"

\* sk.sign(data): ECDSA over sha1(data) (the key's default hashfunc) with a
\* fresh random nonce k.
Sign(key, data, k) == "ecdsa(" \o key \o "," \o sha1(data) \o "," \o ToString(k) \o ")"

\* ------------------------------------------------------------------- clock
Pad2(n) == IF n < 10 THEN "0" \o ToString(n) ELSE ToString(n)
\* strftime('%Y-%m-%dT%H:%M:%SZ') of second t of the hour 2025-01-01T00.
Strftime(t) == <<"2025-01-01T00:" \o Pad2((t \div 60) % 60) \o ":" \o Pad2(t % 60) \o "Z">>

UuidText(u) == <<"00000000-0000-4000-8000-0000000000" \o Pad2(u)>>


\* ------------------------------------------------------------------- state
VARIABLES
    pc,               \* the statement of create_ldp_vc about to run
    now,              \* the wall clock, in seconds
    holder_did,       \* the three lines read by input()
    holder_nama,
    holder_nim,
    heap,             \* the dicts allocated so far, by address
    proof_options,    \* locals of create_ldp_vc: addresses of dicts ...
    credential,
    signed_vc,
    proof_hash,       \* ... and bytes objects
    credential_hash,
    data_to_sign,
    sk,
    signature_bytes,
    stdout,           \* what print() has written, one entry per call
    canon             \* outputs of the canonicalization runs (CanonSpec only)

vars ==
    <<pc, now, holder_did, holder_nama, holder_nim, heap, proof_options, credential,
      signed_vc, proof_hash, credential_hash, data_to_sign, sk, signature_bytes,
      stdout, canon>>

\* Mutants of the statement order: the credential hashed before the proof
\* options; the proof attached before the signature value is set; the document
\* printed before the proof is attached.
Body_hashSwapped ==
    <<"L23", "L28", "L36", "L47", "L46", "L48", "L51", "L52", "L55", "L56", "L57",
      "L59", "L63">>
Body_attachBeforeValue ==
    <<"L23", "L28", "L36", "L46", "L47", "L48", "L51", "L52", "L56", "L57", "L55",
      "L59", "L63">>
Body_printBeforeAttach ==
    <<"L23", "L28", "L36", "L46", "L47", "L48", "L51", "L52", "L55", "L56", "L59",
      "L63", "L57">>

\* The statements of create_ldp_vc, by the line each starts on, in the order
\* the function body runs them.
Body ==
    <<"L23", "L28", "L36", "L46", "L47", "L48", "L51", "L52", "L55", "L56", "L57",
      "L59", "L63">>
Running == {Body[i] : i \in 1..Len(Body)}
After(label) ==
    LET i == CHOOSE j \in 1..Len(Body) : Body[j] = label
    IN  IF i = Len(Body) THEN "done" ELSE Body[i + 1]

\* ------------------------------------------------------------ dict displays
\* Mutant: the proof options are built with a placeholder for the signature.
ProofOptionsLiteral_withValue(created) ==
    << Entry("type", Str(<<"EcdsaSecp256k1Signature2019">>)),
       Entry("created", Str(created)),
       Entry("verificationMethod", Str(verification_method)),
       Entry("proofPurpose", Str(<<"assertionMethod">>)),
       Entry("proofValue", Str(<<>>)) >>

ProofOptionsLiteral(created) ==
    << Entry("type", Str(<<"EcdsaSecp256k1Signature2019">>)),
       Entry("created", Str(created)),
       Entry("verificationMethod", Str(verification_method)),
       Entry("proofPurpose", Str(<<"assertionMethod">>)) >>

\* Mutant: the credential formats the clock again.
IssuanceDate_clock(h, po, t) == Str(Strftime(t))

\* "issuanceDate": proof_options["created"]; the clock t is not read again.
IssuanceDate(h, po, t) == Get(h[po], "created")

SubjectLiteral(did, nama, nim) ==
    << Entry("id", Str(did)), Entry("nama", Str(nama)), Entry("nim", Str(nim)) >>

CredentialLiteral(u, issuance, subject) ==
    << Entry("@context", List(<< <<"https://www.w3.org/2018/credentials/v1">> >>)),
       Entry("id", Str(<<"urn:uuid:">> \o UuidText(u))),
       Entry("type", List(<< <<"VerifiableCredential">>,
                             <<"UniversityDegreeCredential">> >>)),
       Entry("issuer", Str(issuer_did)),
       Entry("issuanceDate", issuance),
       Entry("credentialSubject", Ref(subject)) >>

\* Mutant: the digests concatenated the other way round.
DataToSign_reversed(ph, ch) == ch \o ph

\* proof_hash + credential_hash
DataToSign(ph, ch) == ph \o ch

\* ----------------------------------------------------------------- banners
StartBanner ==
    << "\nMembuat LDP-VC Ijazah untuk:",
       "   Holder: " \o Plain(holder_nama) \o " (" \o Plain(holder_nim) \o ")",
       "   Issuer: " \o Plain(issuer_did) >>
Rule == "----------------------------------------------------"
SuccessBanner ==
    << "\nLDP-VC Berhasil Dibuat dan Ditandatangani!", Rule,
       "Output JSON-LD dengan objek \"proof\":", Rule >>

\* -------------------------------------------------------------------- Init
Init ==
    /\ pc = Body[1]
    /\ now = 0
    /\ holder_did \in HolderDids
    /\ holder_nama \in HolderNames
    /\ holder_nim \in HolderNims
    /\ heap = <<>>
    /\ proof_options = None
    /\ credential = None
    /\ signed_vc = None
    /\ proof_hash = Unbound
    /\ credential_hash = Unbound
    /\ data_to_sign = Unbound
    /\ sk = Unbound
    /\ signature_bytes = Unbound
    /\ stdout = <<>>
    /\ canon = <<>>

inputs == <<holder_did, holder_nama, holder_nim>>

\* ----------------------------------------------------------------- actions
\* lines 23-25
PrintStart ==
    /\ pc = "L23"
    /\ stdout' = stdout \o StartBanner
    /\ pc' = After("L23")
    /\ UNCHANGED <<now, inputs, heap, proof_options, credential, signed_vc, proof_hash,
                   credential_hash, data_to_sign, sk, signature_bytes, canon>>

\* lines 28-33: the only read of the clock
BuildProofOptions ==
    /\ pc = "L28"
    /\ heap' = Append(heap, ProofOptionsLiteral(Strftime(now)))
    /\ proof_options' = Len(heap) + 1
    /\ pc' = After("L28")
    /\ UNCHANGED <<now, inputs, credential, signed_vc, proof_hash, credential_hash,
                   data_to_sign, sk, signature_bytes, stdout, canon>>

\* lines 36-43
BuildCredential ==
    /\ pc = "L36"
    /\ \E u \in 1..MaxUuid :
          LET subject == Len(heap) + 1
          IN  /\ heap' = heap \o
                    << SubjectLiteral(holder_did, holder_nama, holder_nim),
                       CredentialLiteral(u, IssuanceDate(heap, proof_options, now),
                                         subject) >>
              /\ credential' = subject + 1
    /\ pc' = After("L36")
    /\ UNCHANGED <<now, inputs, proof_options, signed_vc, proof_hash, credential_hash,
                   data_to_sign, sk, signature_bytes, stdout, canon>>

\* line 46
HashProofOptions ==
    /\ pc = "L46"
    /\ proof_hash' = sha256(Canonical(heap, heap[proof_options]))
    /\ pc' = After("L46")
    /\ UNCHANGED <<now, inputs, heap, proof_options, credential, signed_vc,
                   credential_hash, data_to_sign, sk, signature_bytes, stdout, canon>>

\* line 47
HashCredential ==
    /\ pc = "L47"
    /\ credential_hash' = sha256(Canonical(heap, heap[credential]))
    /\ pc' = After("L47")
    /\ UNCHANGED <<now, inputs, heap, proof_options, credential, signed_vc, proof_hash,
                   data_to_sign, sk, signature_bytes, stdout, canon>>

\* line 48
Concatenate ==
    /\ pc = "L48"
    /\ data_to_sign' = DataToSign(proof_hash, credential_hash)
    /\ pc' = After("L48")
    /\ UNCHANGED <<now, inputs, heap, proof_options, credential, signed_vc, proof_hash,
                   credential_hash, sk, signature_bytes, stdout, canon>>

\* line 51
MakeKey ==
    /\ pc = "L51"
    /\ KeyLengthOk
    /\ sk' = FromHex(KeyHexDigits)
    /\ pc' = After("L51")
    /\ UNCHANGED <<now, inputs, heap, proof_options, credential, signed_vc, proof_hash,
                   credential_hash, data_to_sign, signature_bytes, stdout, canon>>

\* line 52
SignData ==
    /\ pc = "L52"
    /\ \E k \in 1..MaxNonce : signature_bytes' = Sign(sk, data_to_sign, k)
    /\ pc' = After("L52")
    /\ UNCHANGED <<now, inputs, heap, proof_options, credential, signed_vc, proof_hash,
                   credential_hash, data_to_sign, sk, stdout, canon>>

\* line 55: the ASCII base64 text, .decode('utf-8') changes nothing
SetProofValue ==
    /\ pc = "L55"
    /\ heap' = [heap EXCEPT ![proof_options] =
                    SetItem(@, "proofValue", Str(<<b64encode(signature_bytes)>>))]
    /\ pc' = After("L55")
    /\ UNCHANGED <<now, inputs, proof_options, credential, signed_vc, proof_hash,
                   credential_hash, data_to_sign, sk, signature_bytes, stdout, canon>>

\* line 56
CopyCredential ==
    /\ pc = "L56"
    /\ LET c == DictCopy(heap, credential)
       IN  heap' = c.heap /\ signed_vc' = c.ref
    /\ pc' = After("L56")
    /\ UNCHANGED <<now, inputs, proof_options, credential, proof_hash, credential_hash,
                   data_to_sign, sk, signature_bytes, stdout, canon>>

\* line 57: the value stored is the proof_options object itself
AttachProof ==
    /\ pc = "L57"
    /\ heap' = [heap EXCEPT ![signed_vc] = SetItem(@, "proof", Ref(proof_options))]
    /\ pc' = After("L57")
    /\ UNCHANGED <<now, inputs, proof_options, credential, signed_vc, proof_hash,
                   credential_hash, data_to_sign, sk, signature_bytes, stdout, canon>>

\* lines 59-62
PrintSuccess ==
    /\ pc = "L59"
    /\ stdout' = stdout \o SuccessBanner
    /\ pc' = After("L59")
    /\ UNCHANGED <<now, inputs, heap, proof_options, credential, signed_vc, proof_hash,
                   credential_hash, data_to_sign, sk, signature_bytes, canon>>

\* line 63
PrintSigned ==
    /\ pc = "L63"
    /\ stdout' = Append(stdout, DumpsDict(heap, heap[signed_vc], Indented, 0))
    /\ pc' = After("L63")
    /\ UNCHANGED <<now, inputs, heap, proof_options, credential, signed_vc, proof_hash,
                   credential_hash, data_to_sign, sk, signature_bytes, canon>>

\* An exception raised by the statement about to run (a library error at lines
\* 51-52, KeyboardInterrupt or MemoryError anywhere): nothing in the function
\* or at its call site catches it, so the script ends there.
Raise ==
    /\ pc \in Running
    /\ pc' = "aborted"
    /\ UNCHANGED <<now, inputs, heap, proof_options, credential, signed_vc, proof_hash,
                   credential_hash, data_to_sign, sk, signature_bytes, stdout, canon>>

\* Time passes between any two statements.
Tick ==
    /\ pc \in Running
    /\ now < MaxClock
    /\ now' = now + 1
    /\ UNCHANGED <<pc, inputs, heap, proof_options, credential, signed_vc, proof_hash,
                   credential_hash, data_to_sign, sk, signature_bytes, stdout, canon>>

Next ==
    \/ PrintStart
    \/ BuildProofOptions
    \/ BuildCredential
    \/ HashProofOptions
    \/ HashCredential
    \/ Concatenate
    \/ MakeKey
    \/ SignData
    \/ SetProofValue
    \/ CopyCredential
    \/ AttachProof
    \/ PrintSuccess
    \/ PrintSigned
    \/ Raise
    \/ Tick

Spec == Init /\ [][Next]_vars


\* ---------------------------------------------------------------- verifier
\* The verifier of a signed document: the mirror of the issuing operation. It
\* is not part of the script; it follows the round-trip contract.
VerifierCanonical(h, d) == DumpsDict(h, d, CompactSorted, 0)
VerifierDocument(h, doc) == DictWithout(h[doc], "proof")
VerifierProofObject(h, doc) == h[Get(h[doc], "proof").r]
VerifierProofOptions(h, doc) == DictWithout(VerifierProofObject(h, doc), "proofValue")
VerifierProofDigest(h, doc) == sha256(VerifierCanonical(h, VerifierProofOptions(h, doc)))
VerifierDocumentDigest(h, doc) == sha256(VerifierCanonical(h, VerifierDocument(h, doc)))
VerifierMessage(h, doc) == VerifierProofDigest(h, doc) \o VerifierDocumentDigest(h, doc)
\* The issuer's public key accepts exactly the signatures its private key makes
\* of the message, whatever the nonce.
VerifyingKeyVerify(signature_text, message) ==
    \E k \in 1..MaxNonce :
        Plain(signature_text) = b64encode(Sign(FromHex(KeyHexDigits), message, k))
VerifierAccepts(h, doc) ==
    /\ HasKey(h[doc], "proof")
    /\ HasKey(VerifierProofObject(h, doc), "proofValue")
    /\ VerifyingKeyVerify(Get(VerifierProofObject(h, doc), "proofValue").s,
                          VerifierMessage(h, doc))

\* ------------------------------------------------------- steps of issuance
BuiltProofOptions == proof_options # None
BuiltDocument == credential # None
HashedProofOptions == proof_hash # Unbound
HashedDocument == credential_hash # Unbound
Signed == signature_bytes # Unbound
SignatureSet == BuiltProofOptions /\ HasKey(heap[proof_options], "proofValue")
ProofAttached == signed_vc # None /\ HasKey(heap[signed_vc], "proof")

\* The proof options as they were before line 55.
OptionsUnsigned == DictWithout(heap[proof_options], "proofValue")
\* Each step of the sequence implies the one before it.
InOrder(steps) == \A i \in 2..Len(steps) : steps[i] => steps[i - 1]

\* ------------------------------------------------------------------ claims

\* C1: whenever a digest is about to be computed, the credential has no
\* "proof" and the proof options have no proofValue / signatureValue; each
\* digest is the digest of the object without that field; and the fields are
\* added only once both digests exist.
C1_ExclusionAtHashing ==
    /\ pc = "L46" =>
          /\ ~HasKey(heap[proof_options], "proofValue")
          /\ ~HasKey(heap[proof_options], "signatureValue")
    /\ pc = "L47" => ~HasKey(heap[credential], "proof")
    /\ HashedProofOptions =>
          proof_hash = sha256(Canonical(heap,
              DictWithout(OptionsUnsigned, "signatureValue")))
    /\ HashedDocument =>
          credential_hash = sha256(Canonical(heap, DictWithout(heap[credential], "proof")))
    /\ \A a \in 1..Len(heap) :
          (HasKey(heap[a], "proof") \/ HasKey(heap[a], "proofValue")
             \/ HasKey(heap[a], "signatureValue"))
          => (HashedProofOptions /\ HashedDocument)
C1_Witness ==
    /\ HashedProofOptions /\ HashedDocument
    /\ SignatureSet /\ ProofAttached

\* C2: the message signed is the digest of the proof options followed by the
\* digest of the credential, each of its own canonical form; not the reverse,
\* not the digest of the combined object.
C2_SigningInput ==
    LET ph == sha256(Canonical(heap, OptionsUnsigned))
        ch == sha256(Canonical(heap, heap[credential]))
        whole == [heap EXCEPT ![proof_options] = OptionsUnsigned]
        combined == SetItem(heap[credential], "proof", Ref(proof_options))
    IN  /\ data_to_sign # Unbound =>
              /\ data_to_sign = ph \o ch
              /\ data_to_sign # ch \o ph
              /\ data_to_sign # sha256(Canonical(whole, combined))
        /\ Signed => \E k \in 1..MaxNonce : signature_bytes = Sign(sk, ph \o ch, k)
C2_Witness == Signed /\ pc = "L55"

\* C3: for the credential the script prints, the verifier's two recomputed
\* digests are the two digests signed at issuance, and the embedded signature
\* verifies over proof digest then document digest.
C3_RoundTrip ==
    pc = "done" =>
        /\ VerifierProofDigest(heap, signed_vc) = proof_hash
        /\ VerifierDocumentDigest(heap, signed_vc) = credential_hash
        /\ VerifierMessage(heap, signed_vc) = data_to_sign
        /\ VerifierAccepts(heap, signed_vc)
C3_Witness == pc = "done" /\ VerifierAccepts(heap, signed_vc)

\* C4: with an empty subject identifier nothing is hashed, signed or produced.
C4_EmptySubjectRejected ==
    holder_did = <<>> =>
        /\ ~HashedProofOptions
        /\ ~HashedDocument
        /\ ~Signed
        /\ signed_vc = None
        /\ pc # "done"

\* C5 as stated: document, proof options, document digest, proof-options
\* digest, signature, signature value, proof attached.
C5_StatedOrder ==
    InOrder(<<BuiltDocument, BuiltProofOptions, HashedDocument, HashedProofOptions,
              Signed, SignatureSet, ProofAttached>>)
\* C5 amended: proof options, document, proof-options digest, document digest,
\* signature, signature value, proof attached: no step is done before the one
\* that precedes it.
C5_CodeOrder ==
    InOrder(<<BuiltProofOptions, BuiltDocument, HashedProofOptions, HashedDocument,
              Signed, SignatureSet, ProofAttached>>)
C5_Witness == pc = "done" /\ ProofAttached /\ SignatureSet

\* The lines print() writes that are no document.
BannerLines ==
    {StartBanner[i] : i \in 1..Len(StartBanner)}
        \cup {SuccessBanner[i] : i \in 1..Len(SuccessBanner)}
\* C6: until every step has succeeded only the banners are printed, also when
\* the run is aborted by an exception; the one document printed is the signed
\* one, with its proof and signature value.
C6_NoPartialArtifact ==
    /\ pc # "done" => \A i \in 1..Len(stdout) : stdout[i] \in BannerLines
    /\ pc = "done" =>
          /\ HashedProofOptions /\ HashedDocument /\ Signed
          /\ SignatureSet /\ ProofAttached
          /\ Get(heap[signed_vc], "proof").r = proof_options
          /\ stdout[Len(stdout)] = DumpsDict(heap, heap[signed_vc], Indented, 0)
          /\ \A i \in 1..(Len(stdout) - 1) : stdout[i] \in BannerLines
C6_Witness == pc = "aborted" /\ Signed /\ BuiltDocument

\* C7: once the proof is attached the unsigned credential is another object
\* than the signed one, has no "proof", is what it was when it was hashed, and
\* the signed document is that credential plus "proof".
C7_AttachDoesNotMutate ==
    ProofAttached =>
        /\ signed_vc # credential
        /\ ~HasKey(heap[credential], "proof")
        /\ sha256(Canonical(heap, heap[credential])) = credential_hash
        /\ DictWithout(heap[signed_vc], "proof") = heap[credential]
        /\ Get(heap[signed_vc], "proof") = Ref(proof_options)
C7_Witness == ProofAttached /\ pc = "L59"

\* The signed document read through its nested objects, as text.
DocumentText ==
    IF signed_vc = None THEN "" ELSE DumpsDict(heap, heap[signed_vc], Indented, 0)
\* A dict carries a "proof" only once the signature exists, then exactly one,
\* holding a proofValue; past line 57 the signed document carries it.
ProofOnlyWhenSigned ==
    /\ \A a \in 1..Len(heap) :
          HasKey(heap[a], "proof") =>
              /\ Signed
              /\ CountKey(heap[a], "proof") = 1
              /\ HasKey(heap[Get(heap[a], "proof").r], "proofValue")
    /\ pc \in {"L59", "L63", "done"} => (ProofAttached /\ SignatureSet)
\* C9: the proof is absent until the signature exists; once attached the
\* document carries exactly one proof with a signature value, keeps it, and
\* does not change in any other way.
C9_Lifecycle ==
    /\ []ProofOnlyWhenSigned
    /\ [][ProofAttached => (ProofAttached' /\ DocumentText' = DocumentText)]_vars
C9_Witness == pc = "done" /\ ProofAttached /\ Len(stdout) > 0

\* C10: the credential's issuanceDate is the proof's created, whatever the
\* clock shows by the time the credential is built or printed.
C10_SameTimestamp ==
    /\ BuiltDocument =>
          Get(heap[credential], "issuanceDate") = Get(heap[proof_options], "created")
    /\ ProofAttached =>
          Get(heap[signed_vc], "issuanceDate")
              = Get(VerifierProofObject(heap, signed_vc), "created")
C10_Witness ==
    /\ pc = "done"
    /\ Get(heap[proof_options], "created") # Str(Strftime(now))
    /\ Get(heap[signed_vc], "issuanceDate") = Get(heap[proof_options], "created")


\* ------------------------------------------------- canonicalization alone
\* The canonical form applied to two mappings built in arbitrary insertion
\* orders: heap[2] and heap[4], each with a nested mapping (heap[1], heap[3]).
\* The first is a credential cut down to three fields; the second has the same
\* fields, with a subject name of its own choosing.
Reordered(d) ==
    {[i \in 1..Len(d) |-> d[f[i]]] : f \in Permutations(1..Len(d))}
OuterLiteral(subject) ==
    << Entry("id", Str(<<"urn:uuid:">> \o UuidText(1))),
       Entry("type", List(<< <<"VerifiableCredential">>,
                             <<"UniversityDegreeCredential">> >>)),
       Entry("credentialSubject", Ref(subject)) >>

RECURSIVE SameMapping(_, _, _)
SameValue(h, v, w) ==
    /\ v.tag = w.tag
    /\ IF v.tag = "dict" THEN SameMapping(h, h[v.r], h[w.r]) ELSE v = w
\* The same key/value pairs at every nesting level, in whatever order.
SameMapping(h, d, e) ==
    /\ Len(d) = Len(e)
    /\ \A i \in 1..Len(d) :
          \E j \in 1..Len(e) : d[i].k = e[j].k /\ SameValue(h, d[i].v, e[j].v)

CanonInit ==
    /\ pc = "canon"
    /\ now = 0
    /\ holder_did \in HolderDids
    /\ holder_nama \in HolderNames
    /\ holder_nim \in HolderNims
    /\ \E other \in HolderNames :
       \E n1 \in Reordered(SubjectLiteral(holder_did, holder_nama, holder_nim)) :
       \E o1 \in Reordered(OuterLiteral(1)) :
       \E n2 \in Reordered(SubjectLiteral(holder_did, other, holder_nim)) :
       \E o2 \in Reordered(OuterLiteral(3)) :
          heap = <<n1, o1, n2, o2>>
    /\ proof_options = None
    /\ credential = None
    /\ signed_vc = None
    /\ proof_hash = Unbound
    /\ credential_hash = Unbound
    /\ data_to_sign = Unbound
    /\ sk = Unbound
    /\ signature_bytes = Unbound
    /\ stdout = <<>>
    /\ canon = <<>>

\* json.dumps(..., sort_keys=True, separators=(',', ':')) of the next mapping.
Canonicalize ==
    /\ pc = "canon"
    /\ Len(canon) < 2
    /\ canon' = Append(canon, Canonical(heap, heap[2 * (Len(canon) + 1)]))
    /\ UNCHANGED <<pc, now, inputs, heap, proof_options, credential, signed_vc,
                   proof_hash, credential_hash, data_to_sign, sk, signature_bytes,
                   stdout>>

CanonNext == Canonicalize

CanonSpec == CanonInit /\ [][CanonNext]_vars

\* C8: two mappings with the same key/value pairs at every nesting level have
\* the same canonical bytes, and so the same digest, whatever the insertion
\* orders.
C8_OrderIndependent ==
    (Len(canon) = 2 /\ SameMapping(heap, heap[2], heap[4])) =>
        /\ canon[1] = canon[2]
        /\ sha256(canon[1]) = sha256(canon[2])
C8_Witness ==
    /\ Len(canon) = 2
    /\ SameMapping(heap, heap[2], heap[4])
    /\ heap[2][1].k # heap[4][1].k
    /\ heap[1][1].k # heap[3][1].k
    /\ canon[1] = canon[2]

============================================================================
